---------------------------- MODULE Spec2Model ----------------------------
(***************************************************************************)
(* The per-conversation session actor (class Chat, src/unnamed/part_002):  *)
(* its persisted storage (history, jobs, nextPruneAt, tb:<key>), the one   *)
(* alarm slot of the Durable Object, and the handlers fetch() and alarm(). *)
(*                                                                         *)
(* Time is counted in ticks and text in characters.  The program's         *)
(* constants are scaled down so that every retention and timing branch is  *)
(* reachable within a few ticks; the orders the code depends on are kept:  *)
(* MIN_ALARM_MS < DAILY_MS < MAX_AGE_MS, both refill intervals are shorter *)
(* than the bucket TTL, a valid user text fits the character budget.  A    *)
(* text is abstracted to a label and its length, which is all the code     *)
(* looks at (truthiness and .length).                                      *)
(*                                                                         *)
(* In Spec the handlers are serialized: one action is one whole run of a   *)
(* handler, every Date.now() of the run reading the same instant.          *)
(***************************************************************************)
EXTENDS Integers, Sequences, FiniteSets, TLC

(* ------------------------------ constants ------------------------------ *)
\* program constants (scaled)
MAX_MESSAGES == 3
MAX_AGE_MS == 3
MAX_HISTORY_CHARS == 6
DAILY_MS == 2
MIN_ALARM_MS == 1
MINUTE_MS == 2
CHAT_RATE == 2
CHAT_BURST == 3
SCHED_RATE == 1
SCHED_BURST == 1
BUCKET_TTL == 3
MAX_TEXT_CHARS == 3
OK_CHARS == 2
MARKER_CHARS == 1

\* bounds of the model
MaxTime == 4
MaxJobs == 2
MaxOps == 2
MaxAdmits == 6
MaxInflight == 2
MaxStored == 3
MaxLen == 4

NoAlarm == -1
NoBucket == [tokens |-> -1, last |-> -1, exp |-> -1]
Keys == {"c1"}
JobIds == 1..(MaxJobs + 1)

Text(label, n) == [text |-> label, len |-> n]
Turn(role, content, ts) == [role |-> role, content |-> content, ts |-> ts]

\* request inputs
UserTexts == {Text("", 0), Text("u", 1), Text("U", MAX_TEXT_CHARS),
              Text("UU", MAX_TEXT_CHARS + 1)}
Prompts == {Text("", 0), Text("p", 1)}
NaN == -9
\* body.runAt as an offset from Date.now(), or not a finite number
RunAtOffsets == (-1)..(DAILY_MS + 2)
\* what the model endpoint can stream back: nothing (stored as "ok") or a text
\* longer than the whole character budget; "fail" is a thrown invocation
ModelTexts == {Text("", 0), Text("R", MAX_HISTORY_CHARS + 1)}
Fail == Text("fail", -1)
ModelOutcomes == ModelTexts \cup {Fail}
\* the outcomes to draw for a request: one only unless it reaches the model
OutcomesIf(invokes) == IF invokes THEN ModelOutcomes ELSE {Fail}

VARIABLES
  now,          \* Date.now()
  history,      \* storage "history" (absent = <<>>, as loadHistory reads it)
  jobs,         \* storage "jobs" (absent = <<>>, as every reader reads it)
  nextPruneAt,  \* storage "nextPruneAt" (absent = 0, as every reader reads it)
  alarm,        \* the actor's single alarm slot: a time or NoAlarm
  buckets,      \* storage "tb:<key>", with the expiry of the last put
  nextId,       \* stands for crypto.randomUUID(): ids are never reused
  fired,        \* history variable: per job id, the wake-ups that ran it to completion
  ops,          \* history variable: POST requests handled so far (bounded by MaxOps,
                \* and one more for every handler in flight)
  quiet,        \* history variable: history was cleared and no job queued since
  admits,       \* history variable of BucketSpec: the tokenBucket calls made
  last,         \* history variable: the handler that ran last, what it saw and answered
  inflight,     \* OverlapSpec: the handlers suspended at a model invocation
  sessions      \* SessionsSpec: the storage of every actor instance, by id

vars == <<now, history, jobs, nextPruneAt, alarm, buckets, nextId, fired, ops, quiet,
          admits, last, inflight, sessions>>

(* --------------------------- pure functions ---------------------------- *)
Min(a, b) == IF a <= b THEN a ELSE b

RECURSIVE SumLen(_)
SumLen(messages) ==
  IF messages = <<>> THEN 0
  ELSE Head(messages).content.len + SumLen(Tail(messages))

pruneByAge(messages, t) ==
  LET cutoff == t - MAX_AGE_MS
  IN SelectSeq(messages, LAMBDA m : m.ts >= cutoff)

\* faulty variant: slice(messages.length - MAX_MESSAGES - 1)
pruneByCount_KeepsOneMore(messages) ==
  IF Len(messages) <= MAX_MESSAGES THEN messages
  ELSE SubSeq(messages, Len(messages) - MAX_MESSAGES, Len(messages))

\* faulty variant: slice(0, MAX_MESSAGES)
pruneByCount_KeepsOldest(messages) ==
  IF Len(messages) <= MAX_MESSAGES THEN messages
  ELSE SubSeq(messages, 1, MAX_MESSAGES)

\* faulty variant: at the limit or above it, one message is dropped per call
pruneByCount_DropsOne(messages) ==
  IF Len(messages) < MAX_MESSAGES THEN messages
  ELSE Tail(messages)

pruneByCount(messages) ==
  IF Len(messages) <= MAX_MESSAGES THEN messages
  ELSE SubSeq(messages, Len(messages) - MAX_MESSAGES + 1, Len(messages))

\* the loop of pruneByChars: i walks down from the last message; the result
\* is the index of the message at which the loop breaks (0 when it runs out)
RECURSIVE CharsBreakAt(_, _, _)
CharsBreakAt(messages, i, total) ==
  IF i = 0 THEN 0
  ELSE IF total + messages[i].content.len > MAX_HISTORY_CHARS THEN i
  ELSE CharsBreakAt(messages, i - 1, total + messages[i].content.len)

RECURSIVE CharsSkipping(_, _, _)
CharsSkipping(messages, i, total) ==
  IF i = 0 THEN <<>>
  ELSE IF total + messages[i].content.len > MAX_HISTORY_CHARS
       THEN CharsSkipping(messages, i - 1, total)
       ELSE Append(CharsSkipping(messages, i - 1, total + messages[i].content.len),
                   messages[i])

\* faulty variant: continue instead of break
pruneByChars_SkipsLarge(messages) == CharsSkipping(messages, Len(messages), 0)

pruneByChars(messages) ==
  SubSeq(messages, CharsBreakAt(messages, Len(messages), 0) + 1, Len(messages))

Prune(messages, t) == pruneByChars(pruneByCount(pruneByAge(messages, t)))

\* assistant || "ok"
OrOk(reply) == IF reply.len = 0 THEN Text("ok", OK_CHARS) ELSE reply

RECURSIVE MinRunAt(_)
MinRunAt(js) ==
  IF Len(js) = 1 THEN js[1].runAt
  ELSE Min(js[1].runAt, MinRunAt(Tail(js)))

(* ------------------------------ storage -------------------------------- *)
\* state.storage.get("tb:<key>"): an entry is gone once its TTL has run out
\* faulty variant: an entry is gone one tick after its put
getBucket_ExpiresEarly(key) ==
  IF buckets[key] # NoBucket /\ now + BUCKET_TTL < buckets[key].exp + MIN_ALARM_MS
  THEN buckets[key]
  ELSE NoBucket

getBucket(key) ==
  IF buckets[key] # NoBucket /\ now < buckets[key].exp THEN buckets[key]
  ELSE NoBucket

\* faulty variant: if (b.tokens < 0)
tokenBucket_DeniesBelowZero(key, ratePerMin, burst) ==
  LET refill == MINUTE_MS \div ratePerMin
      stored == getBucket(key)
      b0 == IF stored = NoBucket THEN [tokens |-> burst, last |-> now]
            ELSE [tokens |-> stored.tokens, last |-> stored.last]
      add == (now - b0.last) \div refill
      b1 == IF add > 0 THEN [tokens |-> Min(b0.tokens + add, burst), last |-> now]
            ELSE b0
      put(b) == [tokens |-> b.tokens, last |-> b.last, exp |-> now + BUCKET_TTL]
  IN IF b1.tokens < 0 THEN [ok |-> FALSE, bucket |-> put(b1)]
     ELSE [ok |-> TRUE, bucket |-> put([b1 EXCEPT !.tokens = b1.tokens - 1])]

\* faulty variant: b.tokens -= 1 is missing
tokenBucket_NoCharge(key, ratePerMin, burst) ==
  LET refill == MINUTE_MS \div ratePerMin
      stored == getBucket(key)
      b0 == IF stored = NoBucket THEN [tokens |-> burst, last |-> now]
            ELSE [tokens |-> stored.tokens, last |-> stored.last]
      add == (now - b0.last) \div refill
      b1 == IF add > 0 THEN [tokens |-> Min(b0.tokens + add, burst), last |-> now]
            ELSE b0
      put(b) == [tokens |-> b.tokens, last |-> b.last, exp |-> now + BUCKET_TTL]
  IN IF b1.tokens <= 0 THEN [ok |-> FALSE, bucket |-> put(b1)]
     ELSE [ok |-> TRUE, bucket |-> put(b1)]

\* faulty variant: a denied call stamps the bucket with the time of the call
tokenBucket_DenyResetsLast(key, ratePerMin, burst) ==
  LET refill == MINUTE_MS \div ratePerMin
      stored == getBucket(key)
      b0 == IF stored = NoBucket THEN [tokens |-> burst, last |-> now]
            ELSE [tokens |-> stored.tokens, last |-> stored.last]
      add == (now - b0.last) \div refill
      b1 == IF add > 0 THEN [tokens |-> Min(b0.tokens + add, burst), last |-> now]
            ELSE b0
      put(b) == [tokens |-> b.tokens, last |-> b.last, exp |-> now + BUCKET_TTL]
  IN IF b1.tokens <= 0 THEN [ok |-> FALSE, bucket |-> put([b1 EXCEPT !.last = now])]
     ELSE [ok |-> TRUE, bucket |-> put([b1 EXCEPT !.tokens = b1.tokens - 1])]

\* faulty variant: b.last = now is missing from the refill
tokenBucket_KeepsLast(key, ratePerMin, burst) ==
  LET refill == MINUTE_MS \div ratePerMin
      stored == getBucket(key)
      b0 == IF stored = NoBucket THEN [tokens |-> burst, last |-> now]
            ELSE [tokens |-> stored.tokens, last |-> stored.last]
      add == (now - b0.last) \div refill
      b1 == IF add > 0 THEN [tokens |-> Min(b0.tokens + add, burst), last |-> b0.last]
            ELSE b0
      put(b) == [tokens |-> b.tokens, last |-> b.last, exp |-> now + BUCKET_TTL]
  IN IF b1.tokens <= 0 THEN [ok |-> FALSE, bucket |-> put(b1)]
     ELSE [ok |-> TRUE, bucket |-> put([b1 EXCEPT !.tokens = b1.tokens - 1])]

\* faulty variant: b.tokens += add, without Math.min(..., burst)
tokenBucket_NoCap(key, ratePerMin, burst) ==
  LET refill == MINUTE_MS \div ratePerMin
      stored == getBucket(key)
      b0 == IF stored = NoBucket THEN [tokens |-> burst, last |-> now]
            ELSE [tokens |-> stored.tokens, last |-> stored.last]
      add == (now - b0.last) \div refill
      b1 == IF add > 0 THEN [tokens |-> b0.tokens + add, last |-> now]
            ELSE b0
      put(b) == [tokens |-> b.tokens, last |-> b.last, exp |-> now + BUCKET_TTL]
  IN IF b1.tokens <= 0 THEN [ok |-> FALSE, bucket |-> put(b1)]
     ELSE [ok |-> TRUE, bucket |-> put([b1 EXCEPT !.tokens = b1.tokens - 1])]

\* tokenBucket: the decision and the bucket it puts back.  Both policies of
\* the program divide the minute exactly, so 60000 / ratePerMin is an integer.
tokenBucket(key, ratePerMin, burst) ==
  LET refill == MINUTE_MS \div ratePerMin
      stored == getBucket(key)
      b0 == IF stored = NoBucket THEN [tokens |-> burst, last |-> now]
            ELSE [tokens |-> stored.tokens, last |-> stored.last]
      elapsed == now - b0.last
      add == elapsed \div refill
      b1 == IF add > 0 THEN [tokens |-> Min(b0.tokens + add, burst), last |-> now]
            ELSE b0
      put(b) == [tokens |-> b.tokens, last |-> b.last, exp |-> now + BUCKET_TTL]
  IN IF b1.tokens <= 0 THEN [ok |-> FALSE, bucket |-> put(b1)]
     ELSE [ok |-> TRUE, bucket |-> put([b1 EXCEPT !.tokens = b1.tokens - 1])]

\* tokenBucket on a store whose entries never expire: the same steps, from the
\* entry that was put last (NoBucket when there is none)
tokenBucketKept(stored, ratePerMin, burst) ==
  LET refill == MINUTE_MS \div ratePerMin
      b0 == IF stored = NoBucket THEN [tokens |-> burst, last |-> now]
            ELSE [tokens |-> stored.tokens, last |-> stored.last]
      elapsed == now - b0.last
      add == elapsed \div refill
      b1 == IF add > 0 THEN [tokens |-> Min(b0.tokens + add, burst), last |-> now]
            ELSE b0
  IN IF b1.tokens <= 0 THEN [ok |-> FALSE, bucket |-> b1]
     ELSE [ok |-> TRUE, bucket |-> [b1 EXCEPT !.tokens = b1.tokens - 1]]

\* faulty variant: nextPruneAt is stored but setAlarm(next) is missing
saveHistory_NoAlarm(h, scheduleNextPrune, al) ==
  LET next == now + DAILY_MS
      rearm == scheduleNextPrune /\ (nextPruneAt = 0 \/ nextPruneAt < next)
  IN [history |-> Prune(h, now),
      nextPruneAt |-> IF rearm THEN next ELSE nextPruneAt,
      alarm |-> al]

\* faulty variant: the prune stages are skipped, history is stored as given
saveHistory_NoPrune(h, scheduleNextPrune, al) ==
  LET next == now + DAILY_MS
      rearm == scheduleNextPrune /\ (nextPruneAt = 0 \/ nextPruneAt < next)
  IN [history |-> h,
      nextPruneAt |-> IF rearm THEN next ELSE nextPruneAt,
      alarm |-> IF rearm THEN next ELSE al]

\* saveHistory: what it leaves in "history", "nextPruneAt" and the alarm slot,
\* given the alarm slot al it starts from ("jobs" is put back as read)
saveHistory(h, scheduleNextPrune, al) ==
  LET next == now + DAILY_MS
      rearm == scheduleNextPrune /\ (nextPruneAt = 0 \/ nextPruneAt < next)
  IN [history |-> Prune(h, now),
      nextPruneAt |-> IF rearm THEN next ELSE nextPruneAt,
      alarm |-> IF rearm THEN next ELSE al]

\* history.map(h => ({ role, content }))
Messages(h) == [i \in 1..Len(h) |-> [role |-> h[i].role, content |-> h[i].content]]
UserMessage(content) == [role |-> "user", content |-> content]

\* faulty variant: history.unshift(...)
pushAssistant_AtFront(h, out) == <<Turn("assistant", OrOk(out), now)>> \o h

\* history.push({ role: "assistant", content: assistant || "ok", ts })
pushAssistant(h, out) == Append(h, Turn("assistant", OrOk(out), now))

\* the synthetic turn of a queued schedule request
MarkerTurn == Turn("assistant", Text("scheduled", MARKER_CHARS), now)

\* faulty variant: if (delta <= MIN_ALARM_MS)
IsImmediate_Inclusive(delta) == delta <= MIN_ALARM_MS

\* if (delta < MIN_ALARM_MS): the request is run inline
IsImmediate(delta) == delta < MIN_ALARM_MS

\* faulty variant: if (userText.length >= 4000)
TooLong_Inclusive(userText) == userText.len >= MAX_TEXT_CHARS

\* if (userText.length > 4000): the chat turn is refused with 413
TooLong(userText) == userText.len > MAX_TEXT_CHARS

\* faulty variant: jobs.unshift({ id, runAt, prompt })
enqueue_AtFront(js, job) == <<job>> \o js

\* jobs.push({ id, runAt, prompt })
enqueue(js, job) == Append(js, job)

\* one turn of the loop over the due jobs in alarm(): the messages handed to
\* the model, and the history array after the push
jobMessages(h, job) == Messages(h) \o <<UserMessage(job.prompt)>>

\* faulty variant: the prompt is pushed to the history as a user turn
fireJob_StoresPrompt(h, job, out) ==
  pushAssistant(Append(h, Turn("user", job.prompt, now)), out)

fireJob(h, job, out) == pushAssistant(h, out)

\* the history array after the first k due jobs
RECURSIVE fireAll(_, _, _, _)
fireAll(h, due, outs, k) ==
  IF k = 0 THEN h
  ELSE fireJob(fireAll(h, due, outs, k - 1), due[k], outs[k])

\* faulty variant: the due jobs are taken newest first
dueJobs_NewestFirst(js) ==
  LET d == SelectSeq(js, LAMBDA j : j.runAt <= now)
  IN [i \in 1..Len(d) |-> d[Len(d) + 1 - i]]

\* jobs.filter(j => j.runAt <= now) and its complement, in the queue's order
dueJobs(js) == SelectSeq(js, LAMBDA j : j.runAt <= now)
futureJobs(js) == SelectSeq(js, LAMBDA j : j.runAt > now)

(* -------------------------- history variables -------------------------- *)
Pre == [history |-> history, jobs |-> jobs, nextPruneAt |-> nextPruneAt,
        alarm |-> alarm, buckets |-> buckets]

NoReq == [runAt |-> NaN, text |-> Text("", 0)]

\* the local variables of a handler: the time and the arrays it read when it
\* started, its history array, the turns it has pushed, the invocations made
NoFrame == [op |-> "none", t0 |-> 0, req |-> NoReq, h0 |-> <<>>, h |-> <<>>,
            pushed |-> <<>>, due |-> <<>>, future |-> <<>>, calls |-> <<>>]

Done(op, status, mode, id, req, calls, wrote) ==
  [op |-> op, status |-> status, mode |-> mode, id |-> id, req |-> req,
   calls |-> calls, wrote |-> wrote, resp |-> <<>>, frame |-> NoFrame, pre |-> Pre]

NoOp == [op |-> "none", status |-> 0, mode |-> "", id |-> 0, req |-> NoReq,
         calls |-> <<>>, wrote |-> FALSE, resp |-> <<>>, frame |-> NoFrame,
         pre |-> [history |-> <<>>, jobs |-> <<>>, nextPruneAt |-> 0,
                  alarm |-> NoAlarm, buckets |-> [k \in Keys |-> NoBucket]]]

(* ------------------------------ sessions ------------------------------- *)
\* The worker routes every /api request to the actor instance named by the
\* request's session; an instance reads and writes its own storage only.  In
\* SessionsSpec the storage of an instance is summed up by who wrote what:
\* every turn and job carries the session of the request that created it.
Sessions == {"a", "b"}
NoSession == ""

\* url.searchParams.get("session") || readCookie(req, "sid") || throw 400
requireSessionForApi(param, cookie) == IF param # NoSession THEN param ELSE cookie

\* faulty variant: env.Chat.idFromName("default")
idFromName_OneForAll(name) == "a"

\* env.Chat.idFromName(sessionId): one instance per name
idFromName(name) == name

\* the storage keys of one instance: history, jobs, whether nextPruneAt and a
\* tb: record are stored, and whether the alarm is set
EmptyStore == [history |-> <<>>, jobs |-> <<>>, nextPruneAt |-> FALSE, bucket |-> FALSE,
               armed |-> FALSE]
StoredTurn(by, role) == [by |-> by, role |-> role]
NoRoute == [session |-> NoSession, op |-> "none", status |-> 0, resp |-> <<>>,
            pre |-> [id \in Sessions |-> EmptyStore]]

(* ------------------------------- Init ---------------------------------- *)
Init ==
  /\ now = 0
  /\ history = <<>>
  /\ jobs = <<>>
  /\ nextPruneAt = 0
  /\ alarm = NoAlarm
  /\ buckets = [k \in Keys |-> NoBucket]
  /\ nextId = 1
  /\ fired = [i \in JobIds |-> 0]
  /\ ops = 0
  /\ quiet = FALSE
  /\ admits = <<>>
  /\ last = NoOp
  /\ inflight = <<>>
  /\ sessions = [store |-> [id \in Sessions |-> EmptyStore], last |-> NoRoute]

(* ------------------------------ handlers ------------------------------- *)
\* GET /history
GetHistory ==
  /\ last' = Done("get", 200, "", 0, NoReq, <<>>, FALSE)
  /\ UNCHANGED <<now, history, jobs, nextPruneAt, alarm, buckets, nextId, fired, ops,
                 quiet, admits, inflight, sessions>>

\* faulty variant: storage.delete("jobs") is missing
ClearHistory_KeepsJobs ==
  /\ history' = <<>>
  /\ quiet' = TRUE
  /\ last' = Done("clear", 200, "", 0, NoReq, <<>>, TRUE)
  /\ UNCHANGED <<now, jobs, nextPruneAt, alarm, buckets, nextId, fired, ops, admits,
                 inflight, sessions>>

\* faulty variant: storage.delete("nextPruneAt") as well
ClearHistory_DeletesNextPrune ==
  /\ history' = <<>>
  /\ jobs' = <<>>
  /\ nextPruneAt' = 0
  /\ quiet' = TRUE
  /\ last' = Done("clear", 200, "", 0, NoReq, <<>>, TRUE)
  /\ UNCHANGED <<now, alarm, buckets, nextId, fired, ops, admits, inflight, sessions>>

\* faulty variant: storage.deleteAlarm() as well
ClearHistory_DeletesAlarm ==
  /\ history' = <<>>
  /\ jobs' = <<>>
  /\ alarm' = NoAlarm
  /\ quiet' = TRUE
  /\ last' = Done("clear", 200, "", 0, NoReq, <<>>, TRUE)
  /\ UNCHANGED <<now, nextPruneAt, buckets, nextId, fired, ops, admits, inflight,
                 sessions>>

\* DELETE /history
ClearHistory ==
  /\ history' = <<>>
  /\ jobs' = <<>>
  /\ quiet' = TRUE
  /\ last' = Done("clear", 200, "", 0, NoReq, <<>>, TRUE)
  /\ UNCHANGED <<now, nextPruneAt, alarm, buckets, nextId, fired, ops, admits,
                 inflight, sessions>>

\* POST /schedule
Schedule(key, runAt, prompt, outcome) ==
  LET tb == tokenBucket(key, SCHED_RATE, SCHED_BURST)
      delta == runAt - now
      req == [runAt |-> runAt, text |-> prompt]
  IN
  /\ ops < MaxOps + Len(inflight)
  /\ ops' = ops + 1
  /\ buckets' = [buckets EXCEPT ![key] = tb.bucket]
  /\ IF ~tb.ok THEN
       /\ last' = Done("schedule", 429, "", 0, req, <<>>, FALSE)
       /\ UNCHANGED <<history, jobs, nextPruneAt, alarm, nextId, quiet>>
     ELSE IF runAt = NaN \/ prompt.len = 0 THEN
       /\ last' = Done("schedule", 400, "", 0, req, <<>>, FALSE)
       /\ UNCHANGED <<history, jobs, nextPruneAt, alarm, nextId, quiet>>
     ELSE IF IsImmediate(delta) THEN
       LET call == [messages |-> Messages(history) \o <<UserMessage(prompt)>>,
                    reply |-> outcome]
           s == saveHistory(pushAssistant(history, outcome), TRUE, alarm)
       IN IF outcome = Fail THEN
            /\ last' = Done("schedule", 500, "", 0, req, <<call>>, FALSE)
            /\ UNCHANGED <<history, jobs, nextPruneAt, alarm, nextId, quiet>>
          ELSE
            /\ history' = s.history
            /\ nextPruneAt' = s.nextPruneAt
            /\ alarm' = s.alarm
            /\ last' = Done("schedule", 200, "immediate", 0, req, <<call>>, TRUE)
            /\ UNCHANGED <<jobs, nextId, quiet>>
     ELSE
       LET id == nextId
           \* setAlarm(new Date(runAt)) comes before saveHistory
           s == saveHistory(Append(history, MarkerTurn), TRUE, runAt)
       IN
       /\ nextId <= MaxJobs
       /\ jobs' = enqueue(jobs, [id |-> id, runAt |-> runAt, prompt |-> prompt])
       /\ nextId' = nextId + 1
       /\ history' = s.history
       /\ nextPruneAt' = s.nextPruneAt
       /\ alarm' = s.alarm
       /\ quiet' = FALSE
       /\ last' = Done("schedule", 200, "scheduled", id, req, <<>>, TRUE)
  /\ UNCHANGED <<now, fired, admits, inflight, sessions>>

\* faulty variant: the user turn is saved before the model is invoked
Chat_SavesUserTurnFirst(key, userText, outcome) ==
  LET tb == tokenBucket(key, CHAT_RATE, CHAT_BURST)
      h1 == Append(history, Turn("user", userText, now))
      call == [messages |-> Messages(h1), reply |-> outcome]
      s == saveHistory(pushAssistant(h1, outcome), TRUE, alarm)
      req == [runAt |-> NaN, text |-> userText]
  IN
  /\ ops < MaxOps + Len(inflight)
  /\ ops' = ops + 1
  /\ buckets' = [buckets EXCEPT ![key] = tb.bucket]
  /\ IF ~tb.ok THEN
       /\ last' = Done("chat", 429, "", 0, req, <<>>, FALSE)
       /\ UNCHANGED <<history, nextPruneAt, alarm>>
     ELSE IF userText.len = 0 THEN
       /\ last' = Done("chat", 400, "", 0, req, <<>>, FALSE)
       /\ UNCHANGED <<history, nextPruneAt, alarm>>
     ELSE IF TooLong(userText) THEN
       /\ last' = Done("chat", 413, "", 0, req, <<>>, FALSE)
       /\ UNCHANGED <<history, nextPruneAt, alarm>>
     ELSE IF outcome = Fail THEN
       /\ history' = saveHistory(h1, FALSE, alarm).history
       /\ last' = Done("chat", 500, "", 0, req, <<call>>, TRUE)
       /\ UNCHANGED <<nextPruneAt, alarm>>
     ELSE
       /\ history' = s.history
       /\ nextPruneAt' = s.nextPruneAt
       /\ alarm' = s.alarm
       \* the response carries the handler's own array, not what was stored
       /\ last' = [Done("chat", 200, "", 0, req, <<call>>, TRUE)
                     EXCEPT !.resp = pushAssistant(h1, outcome)]
  /\ UNCHANGED <<now, jobs, nextId, fired, quiet, admits, inflight, sessions>>

\* POST (chat turn)
Chat(key, userText, outcome) ==
  LET tb == tokenBucket(key, CHAT_RATE, CHAT_BURST)
      h1 == Append(history, Turn("user", userText, now))
      call == [messages |-> Messages(h1), reply |-> outcome]
      s == saveHistory(pushAssistant(h1, outcome), TRUE, alarm)
      req == [runAt |-> NaN, text |-> userText]
  IN
  /\ ops < MaxOps + Len(inflight)
  /\ ops' = ops + 1
  /\ buckets' = [buckets EXCEPT ![key] = tb.bucket]
  /\ IF ~tb.ok THEN
       /\ last' = Done("chat", 429, "", 0, req, <<>>, FALSE)
       /\ UNCHANGED <<history, nextPruneAt, alarm>>
     ELSE IF userText.len = 0 THEN
       /\ last' = Done("chat", 400, "", 0, req, <<>>, FALSE)
       /\ UNCHANGED <<history, nextPruneAt, alarm>>
     ELSE IF TooLong(userText) THEN
       /\ last' = Done("chat", 413, "", 0, req, <<>>, FALSE)
       /\ UNCHANGED <<history, nextPruneAt, alarm>>
     ELSE IF outcome = Fail THEN
       /\ last' = Done("chat", 500, "", 0, req, <<call>>, FALSE)
       /\ UNCHANGED <<history, nextPruneAt, alarm>>
     ELSE
       /\ history' = s.history
       /\ nextPruneAt' = s.nextPruneAt
       /\ alarm' = s.alarm
       \* the response carries the handler's own array, not what was stored
       /\ last' = [Done("chat", 200, "", 0, req, <<call>>, TRUE)
                     EXCEPT !.resp = pushAssistant(h1, outcome)]
  /\ UNCHANGED <<now, jobs, nextId, fired, quiet, admits, inflight, sessions>>

\* alarm(): the platform calls it once the armed time is reached; the slot is
\* empty while the handler runs.  outs[i] is what the model endpoint returns
\* for the i-th due job.  A thrown invocation ends the handler before any
\* write; the platform then keeps the alarm for a retry.
Alarm(outs) ==
  LET due == dueJobs(jobs)
      future == futureJobs(jobs)
      n == Len(due)
      failed == {i \in 1..n : outs[i] = Fail}
      made == IF failed = {} THEN n
              ELSE CHOOSE i \in failed : \A k \in failed : i <= k
      calls == [i \in 1..made |->
                  [messages |-> jobMessages(fireAll(history, due, outs, i - 1), due[i]),
                   reply |-> outs[i], job |-> due[i]]]
      ran == {due[i].id : i \in 1..n}
      h1 == IF n > 0
            THEN saveHistory(fireAll(history, due, outs, n), FALSE, NoAlarm).history
            ELSE history
  IN
  /\ alarm # NoAlarm
  /\ alarm <= now
  /\ DOMAIN outs = 1..n
  /\ IF failed # {} THEN
       /\ last' = Done("alarm", 500, "", 0, NoReq, calls, FALSE)
       /\ UNCHANGED <<history, jobs, nextPruneAt, alarm, fired>>
     ELSE
       /\ last' = Done("alarm", 200, "", 0, NoReq, calls, n > 0 \/ now >= nextPruneAt)
       /\ fired' = [i \in JobIds |-> IF i \in ran THEN fired[i] + 1 ELSE fired[i]]
       /\ IF now >= nextPruneAt THEN
            /\ history' = saveHistory(h1, FALSE, NoAlarm).history
            /\ nextPruneAt' = now + DAILY_MS
            /\ alarm' = now + DAILY_MS
            /\ UNCHANGED jobs
          ELSE IF Len(future) > 0 THEN
            /\ history' = h1
            /\ jobs' = future
            /\ alarm' = IF nextPruneAt = 0 THEN MinRunAt(future)
                        ELSE Min(nextPruneAt, MinRunAt(future))
            /\ UNCHANGED nextPruneAt
          ELSE IF nextPruneAt # 0 THEN
            /\ history' = h1
            /\ alarm' = nextPruneAt
            /\ UNCHANGED <<jobs, nextPruneAt>>
          ELSE
            /\ history' = h1
            /\ nextPruneAt' = now + DAILY_MS
            /\ alarm' = now + DAILY_MS
            /\ UNCHANGED jobs
  /\ UNCHANGED <<now, buckets, nextId, ops, quiet, admits, inflight, sessions>>

\* the clock
Tick ==
  /\ now < MaxTime
  /\ now' = now + 1
  /\ last' = NoOp
  /\ UNCHANGED <<history, jobs, nextPruneAt, alarm, buckets, nextId, fired, ops, quiet,
                 admits, inflight, sessions>>

Requests ==
  \/ GetHistory
  \/ ClearHistory
  \/ \E key \in Keys, off \in RunAtOffsets \cup {NaN}, prompt \in Prompts :
       \E outcome \in OutcomesIf(off # NaN /\ prompt.len > 0 /\ IsImmediate(off)) :
         Schedule(key, IF off = NaN THEN NaN ELSE now + off, prompt, outcome)
  \/ \E key \in Keys, userText \in UserTexts :
       \E outcome \in OutcomesIf(userText.len > 0 /\ ~TooLong(userText)) :
         Chat(key, userText, outcome)

WakeUp == \E outs \in [1..Len(dueJobs(jobs)) -> ModelOutcomes] : Alarm(outs)

Next == Tick \/ Requests \/ WakeUp

Spec == Init /\ [][Next]_vars

\* The platform calls alarm() as soon as the armed time is reached: the clock
\* does not move on while a wake-up is due.
AlarmDue == alarm # NoAlarm /\ alarm <= now
TimelyTick == ~AlarmDue /\ Tick
TimelyNext == TimelyTick \/ Requests \/ WakeUp
TimelySpec == Init /\ [][TimelyNext]_vars

\* tokenBucket alone: calls under either policy on one clock, logged
Policies == {[rate |-> CHAT_RATE, burst |-> CHAT_BURST],
             [rate |-> SCHED_RATE, burst |-> SCHED_BURST]}

Admit(key, p) ==
  LET tb == tokenBucket(key, p.rate, p.burst)
  IN /\ Len(admits) < MaxAdmits
     /\ buckets' = [buckets EXCEPT ![key] = tb.bucket]
     /\ admits' = Append(admits, [key |-> key, at |-> now, rate |-> p.rate,
                                  burst |-> p.burst, ok |-> tb.ok])
     /\ UNCHANGED <<now, history, jobs, nextPruneAt, alarm, nextId, fired, ops, quiet, last,
                    inflight, sessions>>

BucketNext == Tick \/ \E key \in Keys, p \in Policies : Admit(key, p)
BucketSpec == Init /\ [][BucketNext]_vars

\* tokenBucket with and without expiry: in ExpirySpec every call is made on
\* the store of the program, whose entries expire BUCKET_TTL after their last
\* put, and on a store that keeps every entry; the log holds both decisions
KeptBucket(key) ==
  LET mine == {i \in 1..Len(admits) : admits[i].key = key}
  IN IF mine = {} THEN NoBucket
     ELSE admits[CHOOSE i \in mine : \A j \in mine : j <= i].kept

AdmitBoth(key, p) ==
  LET tb == tokenBucket(key, p.rate, p.burst)
      ref == tokenBucketKept(KeptBucket(key), p.rate, p.burst)
  IN /\ Len(admits) < MaxAdmits
     /\ buckets' = [buckets EXCEPT ![key] = tb.bucket]
     /\ admits' = Append(admits, [key |-> key, at |-> now, rate |-> p.rate,
                                  burst |-> p.burst, ok |-> tb.ok,
                                  expired |-> buckets[key] # NoBucket
                                              /\ getBucket(key) = NoBucket,
                                  okKept |-> ref.ok, kept |-> ref.bucket])
     /\ UNCHANGED <<now, history, jobs, nextPruneAt, alarm, nextId, fired, ops, quiet, last,
                    inflight, sessions>>

ExpiryNext == Tick \/ \E key \in Keys, p \in Policies : AdmitBoth(key, p)
ExpirySpec == Init /\ [][ExpiryNext]_vars

(* ------------------------- overlapping handlers ------------------------ *)
\* An actor delivers the next event while a handler waits for the model
\* endpoint (an await that is not a storage operation).  In OverlapSpec a chat
\* turn, an inline schedule request and a wake-up with due jobs stop at each
\* invocation, keeping their local variables in a frame; the storage
\* operations between two invocations run without interruption.
OverlapTexts == {t \in UserTexts : t.len = 1}
OverlapPrompts == {q \in Prompts : q.len > 0}
InlineOffsets == {off \in RunAtOffsets : IsImmediate(off)}
QueuedOffsets == {off \in RunAtOffsets : ~IsImmediate(off)}

Rest(i) == SubSeq(inflight, 1, i - 1) \o SubSeq(inflight, i + 1, Len(inflight))
WakeUpInFlight == \E i \in 1..Len(inflight) : inflight[i].op = "alarm"

\* POST (chat turn) up to streamText
BeginChat(key, userText) ==
  LET tb == tokenBucket(key, CHAT_RATE, CHAT_BURST)
      user == Turn("user", userText, now)
  IN /\ Len(inflight) < MaxInflight
     /\ ops < MaxOps
     /\ tb.ok
     /\ userText.len > 0
     /\ ~TooLong(userText)
     /\ ops' = ops + 1
     /\ buckets' = [buckets EXCEPT ![key] = tb.bucket]
     /\ inflight' = Append(inflight,
          [NoFrame EXCEPT !.op = "chat", !.t0 = now,
                          !.req = [runAt |-> NaN, text |-> userText],
                          !.h0 = history, !.h = Append(history, user),
                          !.pushed = <<user>>])
     /\ last' = NoOp
     /\ UNCHANGED <<now, history, jobs, nextPruneAt, alarm, nextId, fired, quiet, admits,
                    sessions>>

\* POST /schedule, inline path, up to streamText
BeginInline(key, runAt, prompt) ==
  LET tb == tokenBucket(key, SCHED_RATE, SCHED_BURST)
  IN /\ Len(inflight) < MaxInflight
     /\ ops < MaxOps
     /\ tb.ok
     /\ prompt.len > 0
     /\ IsImmediate(runAt - now)
     /\ ops' = ops + 1
     /\ buckets' = [buckets EXCEPT ![key] = tb.bucket]
     /\ inflight' = Append(inflight,
          [NoFrame EXCEPT !.op = "schedule", !.t0 = now,
                          !.req = [runAt |-> runAt, text |-> prompt],
                          !.h0 = history, !.h = history])
     /\ last' = NoOp
     /\ UNCHANGED <<now, history, jobs, nextPruneAt, alarm, nextId, fired, quiet, admits,
                    sessions>>

\* the rest of a chat turn or of an inline schedule request: the reply is
\* pushed to the handler's array and saveHistory stores that array
ResumeRequest(i, outcome) ==
  LET f == inflight[i]
      messages == IF f.op = "chat" THEN Messages(f.h)
                  ELSE Messages(f.h) \o <<UserMessage(f.req.text)>>
      call == [messages |-> messages, reply |-> outcome]
      h2 == pushAssistant(f.h, outcome)
      f2 == [f EXCEPT !.h = h2,
                      !.pushed = Append(@, Turn("assistant", OrOk(outcome), now)),
                      !.calls = <<call>>]
      s == saveHistory(h2, TRUE, alarm)
  IN /\ f.op \in {"chat", "schedule"}
     /\ inflight' = Rest(i)
     /\ IF outcome = Fail THEN
          /\ last' = [Done(f.op, 500, "", 0, f.req, <<call>>, FALSE)
                        EXCEPT !.frame = [f EXCEPT !.calls = <<call>>]]
          /\ UNCHANGED <<history, nextPruneAt, alarm>>
        ELSE
          /\ history' = s.history
          /\ nextPruneAt' = s.nextPruneAt
          /\ alarm' = s.alarm
          /\ last' = [Done(f.op, 200, IF f.op = "schedule" THEN "immediate" ELSE "",
                           0, f.req, <<call>>, TRUE)
                        EXCEPT !.frame = f2,
                               !.resp = IF f.op = "chat" THEN h2 ELSE <<>>]
     /\ UNCHANGED <<now, jobs, buckets, nextId, fired, ops, quiet, admits, sessions>>

\* alarm() up to the first streamText: now, due, future and the history array
\* are read here; the alarm slot is empty from the moment the handler starts
BeginAlarm ==
  /\ alarm # NoAlarm
  /\ alarm <= now
  /\ ~WakeUpInFlight
  /\ Len(inflight) < MaxInflight
  /\ dueJobs(jobs) # <<>>
  /\ inflight' = Append(inflight,
       [NoFrame EXCEPT !.op = "alarm", !.t0 = now, !.h0 = history, !.h = history,
                       !.due = dueJobs(jobs), !.future = futureJobs(jobs)])
  /\ alarm' = NoAlarm
  /\ last' = NoOp
  /\ UNCHANGED <<now, history, jobs, nextPruneAt, buckets, nextId, fired, ops, quiet,
                 admits, sessions>>

\* alarm() from one streamText to the next, or to its end: after the last due
\* job, saveHistory, then the re-arm, which compares the time read at the
\* start with the nextPruneAt read now and writes the future read at the start
ResumeAlarm(i, outcome) ==
  LET f == inflight[i]
      k == Len(f.calls) + 1
      job == f.due[k]
      call == [messages |-> jobMessages(f.h, job), reply |-> outcome, job |-> job]
      f2 == [f EXCEPT !.h = fireJob(f.h, job, outcome),
                      !.pushed = Append(@, Turn("assistant", OrOk(outcome), now)),
                      !.calls = Append(@, call)]
      h1 == saveHistory(f2.h, FALSE, NoAlarm).history
      ran == {f.due[j].id : j \in 1..Len(f.due)}
  IN /\ f.op = "alarm"
     /\ IF outcome = Fail THEN
          \* the handler throws; the platform keeps the wake-up for a retry
          /\ inflight' = Rest(i)
          /\ alarm' = IF alarm = NoAlarm THEN f.t0 ELSE alarm
          /\ last' = [Done("alarm", 500, "", 0, NoReq, Append(f.calls, call), FALSE)
                        EXCEPT !.frame = [f EXCEPT !.calls = Append(@, call)]]
          /\ UNCHANGED <<history, jobs, nextPruneAt, fired>>
        ELSE IF k < Len(f.due) THEN
          /\ inflight' = [inflight EXCEPT ![i] = f2]
          /\ last' = NoOp
          /\ UNCHANGED <<history, jobs, nextPruneAt, alarm, fired>>
        ELSE
          /\ inflight' = Rest(i)
          /\ fired' = [id \in JobIds |-> IF id \in ran THEN fired[id] + 1 ELSE fired[id]]
          /\ last' = [Done("alarm", 200, "", 0, NoReq, f2.calls, TRUE)
                        EXCEPT !.frame = f2]
          /\ IF f.t0 >= nextPruneAt THEN
               /\ history' = Prune(h1, now)
               /\ nextPruneAt' = f.t0 + DAILY_MS
               /\ alarm' = f.t0 + DAILY_MS
               /\ UNCHANGED jobs
             ELSE IF Len(f.future) > 0 THEN
               /\ history' = h1
               /\ jobs' = f.future
               /\ alarm' = IF nextPruneAt = 0 THEN MinRunAt(f.future)
                           ELSE Min(nextPruneAt, MinRunAt(f.future))
               /\ UNCHANGED nextPruneAt
             ELSE IF nextPruneAt # 0 THEN
               /\ history' = h1
               /\ alarm' = nextPruneAt
               /\ UNCHANGED <<jobs, nextPruneAt>>
             ELSE
               /\ history' = h1
               /\ nextPruneAt' = f.t0 + DAILY_MS
               /\ alarm' = f.t0 + DAILY_MS
               /\ UNCHANGED jobs
     /\ UNCHANGED <<now, buckets, nextId, ops, quiet, admits, sessions>>

\* the handlers that make no invocation run as in Spec
QueuedSchedule ==
  \E key \in Keys, off \in QueuedOffsets, prompt \in OverlapPrompts :
    Schedule(key, now + off, prompt, Fail)
IdleWakeUp == ~WakeUpInFlight /\ dueJobs(jobs) = <<>> /\ Alarm(<<>>)

OverlapNext ==
  \/ Tick
  \/ QueuedSchedule
  \/ IdleWakeUp
  \/ \E key \in Keys, userText \in OverlapTexts : BeginChat(key, userText)
  \/ \E key \in Keys, off \in InlineOffsets, prompt \in OverlapPrompts :
       BeginInline(key, now + off, prompt)
  \/ BeginAlarm
  \/ \E i \in 1..Len(inflight), outcome \in ModelOutcomes : ResumeRequest(i, outcome)
  \/ \E i \in 1..Len(inflight), outcome \in ModelOutcomes : ResumeAlarm(i, outcome)

OverlapSpec == Init /\ [][OverlapNext]_vars

(* ------------------------------- routing ------------------------------- *)
SessionOps == {"chat", "schedule", "get", "clear"}

\* fetch of the worker for /api/chat, /api/schedule and /api/history: the
\* request goes to the instance named by its session, whose handler touches
\* that instance's storage
Route(param, cookie, op) ==
  LET name == requireSessionForApi(param, cookie)
      id == idFromName(name)
      st == sessions.store[id]
      done(status, resp) == [session |-> name, op |-> op, status |-> status,
                             resp |-> resp, pre |-> sessions.store]
  IN IF name = NoSession THEN
       sessions' = [sessions EXCEPT !.last = done(400, <<>>)]
     ELSE IF op = "chat" THEN
       /\ Len(st.history) + 2 <= MaxStored
       /\ sessions' = [store |-> [sessions.store EXCEPT ![id] =
                         [st EXCEPT !.history = @ \o <<StoredTurn(name, "user"),
                                                       StoredTurn(name, "assistant")>>,
                                    !.nextPruneAt = TRUE, !.bucket = TRUE,
                                    !.armed = TRUE]],
                       last |-> done(200, <<>>)]
     ELSE IF op = "schedule" THEN
       /\ Len(st.history) + 1 <= MaxStored
       /\ Len(st.jobs) < MaxJobs
       /\ sessions' = [store |-> [sessions.store EXCEPT ![id] =
                         [st EXCEPT !.history = Append(@, StoredTurn(name, "assistant")),
                                    !.jobs = Append(@, name),
                                    !.nextPruneAt = TRUE, !.bucket = TRUE,
                                    !.armed = TRUE]],
                       last |-> done(200, <<>>)]
     ELSE IF op = "clear" THEN
       sessions' = [store |-> [sessions.store EXCEPT ![id] =
                      [st EXCEPT !.history = <<>>, !.jobs = <<>>]],
                    last |-> done(200, <<>>)]
     ELSE
       sessions' = [sessions EXCEPT !.last = done(200, st.history)]

\* alarm() of the instance id: one assistant turn per job of that instance
Fire(id) ==
  LET st == sessions.store[id]
  IN /\ st.armed
     /\ Len(st.history) + Len(st.jobs) <= MaxStored
     /\ sessions' = [store |-> [sessions.store EXCEPT ![id] =
                       [st EXCEPT !.history =
                                    @ \o [i \in 1..Len(st.jobs) |->
                                            StoredTurn(st.jobs[i], "assistant")],
                                  !.jobs = <<>>, !.nextPruneAt = TRUE]],
                     last |-> [session |-> id, op |-> "alarm", status |-> 200,
                               resp |-> <<>>, pre |-> sessions.store]]

Others == <<now, history, jobs, nextPruneAt, alarm, buckets, nextId, fired, ops, quiet,
            admits, last, inflight>>

SessionsNext ==
  \/ \E param \in Sessions \cup {NoSession}, cookie \in Sessions \cup {NoSession},
        op \in SessionOps : Route(param, cookie, op) /\ UNCHANGED Others
  \/ \E id \in Sessions : Fire(id) /\ UNCHANGED Others

SessionsSpec == Init /\ [][SessionsNext]_vars

(* ---------------------------- prune alone ------------------------------ *)
\* saveHistory on any array: PruneSpec starts at any instant with a handler
\* about to call saveHistory(state, h) on an array h of at most MaxLen turns,
\* in any order of timestamps; the maintenance of alarm() may follow it at
\* the same instant.
PruneTexts == {Text("u", 1), Text("U", MAX_TEXT_CHARS), Text("R", MAX_HISTORY_CHARS + 1)}
PruneStamps == 0..DAILY_MS
PruneTurns == {Turn("user", c, ts) : c \in PruneTexts, ts \in PruneStamps}
Arrays == UNION {[1..k -> PruneTurns] : k \in 0..MaxLen}

PruneInit ==
  /\ now \in 0..MaxTime
  /\ inflight \in {<<[NoFrame EXCEPT !.op = "save", !.h = h]>> : h \in Arrays}
  /\ history = <<>>
  /\ jobs = <<>>
  /\ nextPruneAt = 0
  /\ alarm = NoAlarm
  /\ buckets = [k \in Keys |-> NoBucket]
  /\ nextId = 1
  /\ fired = [i \in JobIds |-> 0]
  /\ ops = 0
  /\ quiet = FALSE
  /\ admits = <<>>
  /\ last = NoOp
  /\ sessions = [store |-> [id \in Sessions |-> EmptyStore], last |-> NoRoute]

\* saveHistory(state, h, false)
SaveHistory ==
  /\ inflight # <<>>
  /\ history' = saveHistory(inflight[1].h, FALSE, alarm).history
  /\ inflight' = <<>>
  /\ last' = [Done("save", 200, "", 0, NoReq, <<>>, TRUE)
                EXCEPT !.frame = [inflight[1] EXCEPT !.t0 = now]]
  /\ UNCHANGED <<now, jobs, nextPruneAt, alarm, buckets, nextId, fired, ops, quiet,
                 admits, sessions>>

\* alarm(), maintenance: loadHistory, then saveHistory(state, history, false)
Maintain ==
  /\ last.op = "save"
  /\ history' = saveHistory(history, FALSE, alarm).history
  /\ last' = [Done("maintain", 200, "", 0, NoReq, <<>>, TRUE)
                EXCEPT !.frame = last.frame]
  /\ UNCHANGED <<now, jobs, nextPruneAt, alarm, buckets, nextId, fired, ops, quiet,
                 admits, inflight, sessions>>

PruneNext == SaveHistory \/ Maintain
PruneSpec == PruneInit /\ [][PruneNext]_vars

(* ------------------------------- claims -------------------------------- *)
\* the handler that ran last returned normally; the clock has not moved since
Completed(op) == last.op = op /\ last.status = 200

\* the earliest of the pending jobs' due times and the maintenance due time
EarliestDue ==
  IF nextPruneAt = 0 THEN MinRunAt(jobs) ELSE Min(MinRunAt(jobs), nextPruneAt)

\* C1: whenever the Job Queue is non-empty, a wake-up is armed at the earliest
\* of the smallest dueAt in the queue and nextMaintenanceAt (so never later
\* than a pending job's dueAt).
C1_TimerAtEarliest ==
  jobs # <<>> => alarm # NoAlarm /\ alarm = EarliestDue

\* C2: every queued job is fired or cleared; later requests and re-arms cannot
\* postpone it forever.  Stated for a platform that runs each wake-up as soon
\* as its armed time is reached (TimelySpec), as the bound a finite run can
\* refute: a job that has never been fired is not still waiting more than one
\* maintenance period after its due time.
C2_JobNotPostponed ==
  \A i \in 1..Len(jobs) :
    fired[jobs[i].id] = 0 => now <= jobs[i].runAt + DAILY_MS

\* C3: when a wake-up at time now completes, the persisted Job Queue is
\* exactly the jobs that had dueAt > now, in their original order.
C3_QueueIsFutureJobs ==
  Completed("alarm") => jobs = futureJobs(last.pre.jobs)

\* C4: over any sequence of wake-ups each job is fired at most once.
C4_FiredAtMostOnce ==
  \A id \in JobIds : fired[id] <= 1

\* C5: every value written to the persisted history has length <= 300 and
\* total content length <= 120,000, and at the time of the write every turn
\* is at most 14 days old.
C5_PersistedHistoryWithinLimits ==
  /\ Len(history) <= MAX_MESSAGES
  /\ SumLen(history) <= MAX_HISTORY_CHARS
  /\ last.wrote => \A i \in 1..Len(history) : history[i].ts >= now - MAX_AGE_MS

\* a write that found a turn older than the age limit and kept a younger one
C5_Witness ==
  /\ last.wrote
  /\ history # <<>>
  /\ \E i \in 1..Len(last.pre.history) : last.pre.history[i].ts < now - MAX_AGE_MS

\* the first n logged calls were made under policy p at the instant t
SameCalls(p, from, to, t) ==
  \A i \in from..to :
    admits[i].rate = p.rate /\ admits[i].burst = p.burst /\ admits[i].at = t

\* C6: on a key without a bucket, burst admits at one instant are granted and
\* the next is denied; one refill interval later one more admit is granted
\* and the admit after it, at that instant, is denied.
C6_BurstThenRefill ==
  \A p \in Policies :
    LET b == p.burst
        refill == MINUTE_MS \div p.rate
        n == Len(admits)
        t0 == admits[1].at
    IN /\ \A m \in 1..n :
            (m <= b + 1 /\ SameCalls(p, 1, m, t0)) => (admits[m].ok <=> m <= b)
       /\ (n >= b + 2 /\ SameCalls(p, 1, b + 1, t0)
             /\ SameCalls(p, b + 2, b + 2, t0 + refill)) => admits[b + 2].ok
       /\ (n >= b + 3 /\ SameCalls(p, 1, b + 1, t0)
             /\ SameCalls(p, b + 2, b + 3, t0 + refill)) => ~admits[b + 3].ok

\* the whole sequence of C6 has been played under the chat policy
C6_Witness ==
  LET p == [rate |-> CHAT_RATE, burst |-> CHAT_BURST]
  IN /\ Len(admits) = p.burst + 3
     /\ SameCalls(p, 1, p.burst + 1, admits[1].at)
     /\ SameCalls(p, p.burst + 2, p.burst + 3, admits[1].at + MINUTE_MS \div p.rate)

JobIdsOf(js) == {js[i].id : i \in 1..Len(js)}

\* C7: a valid, admitted schedule request with dueAt - now >= 30 s appends one
\* job {fresh id, dueAt, prompt} at the end of the queue, appends the
\* "scheduled" marker turn to the history, invokes no assistant and answers
\* with the job's id and mode scheduled.
C7_QueuedSchedule ==
  (/\ last.op = "schedule"
   /\ last.status \notin {429, 400}
   /\ last.req.runAt # NaN
   /\ last.req.runAt - now >= MIN_ALARM_MS)
  => /\ last.status = 200
     /\ last.mode = "scheduled"
     /\ last.id \notin JobIdsOf(last.pre.jobs)
     /\ jobs = Append(last.pre.jobs, [id |-> last.id, runAt |-> last.req.runAt,
                                      prompt |-> last.req.text])
     /\ history = Prune(Append(last.pre.history, MarkerTurn), now)
     /\ history # <<>>
     /\ history[Len(history)] = MarkerTurn
     /\ last.calls = <<>>

\* a request was queued behind an earlier job, on a non-empty history
C7_Witness ==
  /\ Completed("schedule")
  /\ last.mode = "scheduled"
  /\ last.pre.jobs # <<>>
  /\ last.pre.history # <<>>

\* the assistant turn pushed for the i-th invocation the last handler made
ReplyTurn(i) == Turn("assistant", OrOk(last.calls[i].reply), now)

\* C8: a wake-up invokes the assistant once per due job, on the history so
\* far plus the job's prompt as the final user turn, and appends exactly the
\* replies (never the prompt); with no due job it appends nothing.
C8_WakeUpAppendsReplies ==
  Completed("alarm") =>
    LET due == dueJobs(last.pre.jobs)
        n == Len(due)
        pushed(k) == last.pre.history \o [i \in 1..k |-> ReplyTurn(i)]
    IN /\ Len(last.calls) = n
       /\ \A i \in 1..n :
            last.calls[i].messages
              = Messages(pushed(i - 1)) \o <<UserMessage(due[i].prompt)>>
       /\ n > 0 => history = Prune(pushed(n), now)
       /\ n = 0 => history \in {last.pre.history, Prune(last.pre.history, now)}

\* a wake-up ran two due jobs and their replies are the persisted history's end
C8_Witness ==
  /\ Completed("alarm")
  /\ Len(last.calls) = 2
  /\ last.pre.history # <<>>
  /\ Len(history) >= 2
  /\ history[Len(history)] = ReplyTurn(2)
  /\ history[Len(history) - 1] = ReplyTurn(1)

\* C9: a valid, admitted schedule request is run inline exactly when
\* dueAt - now < 30 s: the assistant is invoked within the request, one
\* assistant turn is appended, the queue gains no entry and the mode is
\* immediate.
C9_InlineBelowThreshold ==
  (last.op = "schedule" /\ last.status \in {200, 500}) =>
    LET inline == last.req.runAt - now < MIN_ALARM_MS
    IN /\ Len(last.calls) = (IF inline THEN 1 ELSE 0)
       /\ last.status = 200 => (last.mode = "immediate" <=> inline)
       /\ last.mode = "immediate" =>
            /\ last.calls[1].messages
                 = Messages(last.pre.history) \o <<UserMessage(last.req.text)>>
            /\ history = Prune(Append(last.pre.history, ReplyTurn(1)), now)
            /\ jobs = last.pre.jobs

\* a request due just below the threshold was run inline while a job was queued
C9_Witness ==
  /\ Completed("schedule")
  /\ last.mode = "immediate"
  /\ last.req.runAt - now = MIN_ALARM_MS - 1
  /\ last.pre.jobs # <<>>
  /\ history # <<>>

\* C10: after a history clear the persisted history and the Job Queue are
\* both empty, whatever they held.
C10_ClearEmptiesBoth ==
  last.op = "clear" => history = <<>> /\ jobs = <<>>

\* a clear ran on a non-empty history with a job pending
C10_Witness ==
  /\ last.op = "clear"
  /\ last.pre.history # <<>>
  /\ last.pre.jobs # <<>>

FailedCalls == {i \in 1..Len(last.calls) : last.calls[i].reply = Fail}

\* C13: if the invocation for one due job fails during a wake-up, every due
\* job is still invoked and the replies of the others are appended and
\* persisted, the failed job is removed from the queue, and the timer is
\* re-armed (for a time still to come).
C13_FailureIsolated ==
  (last.op = "alarm" /\ FailedCalls # {}) =>
    LET due == dueJobs(last.pre.jobs)
        ok == SelectSeq(last.calls, LAMBDA c : c.reply # Fail)
        replies == [i \in 1..Len(ok) |-> Turn("assistant", OrOk(ok[i].reply), now)]
    IN /\ Len(last.calls) = Len(due)
       /\ history = Prune(last.pre.history \o replies, now)
       /\ \A i \in FailedCalls : last.calls[i].job.id \notin JobIdsOf(jobs)
       /\ alarm # NoAlarm
       /\ alarm > now

\* C14: two jobs with the same dueAt that are both due at a wake-up are
\* invoked in the order they were scheduled (job ids are issued in that
\* order), each once, and their assistant turns are appended in that order.
C14_TiesInScheduleOrder ==
  Completed("alarm") =>
    LET n == Len(last.calls)
        pushed == last.pre.history \o [i \in 1..n |-> ReplyTurn(i)]
    IN /\ {last.calls[i].job : i \in 1..n}
            = {j \in {last.pre.jobs[k] : k \in 1..Len(last.pre.jobs)} : j.runAt <= now}
       /\ \A i, j \in 1..n :
            (i < j /\ last.calls[i].job.runAt = last.calls[j].job.runAt)
              => last.calls[i].job.id < last.calls[j].job.id
       /\ n > 0 => history = Prune(pushed, now)

\* a wake-up ran two jobs with the same dueAt and got two different replies
C14_Witness ==
  /\ Completed("alarm")
  /\ Len(last.calls) = 2
  /\ last.calls[1].job.runAt = last.calls[2].job.runAt
  /\ last.calls[1].reply # last.calls[2].reply

\* C15: at a wake-up with several due jobs of different dueAt, the jobs are
\* invoked in ascending dueAt order, whatever the order they were scheduled in.
C15_AscendingDueOrder ==
  Completed("alarm") =>
    \A i, j \in 1..Len(last.calls) :
      i < j => last.calls[i].job.runAt <= last.calls[j].job.runAt

\* C16: a queued schedule request never moves the armed wake-up later: when
\* it completes the armed time is min(previously armed time, the new job's
\* dueAt), the job's dueAt when nothing was armed.
C16_ScheduleNeverDelaysTimer ==
  (Completed("schedule") /\ last.mode = "scheduled") =>
    alarm = IF last.pre.alarm = NoAlarm THEN last.req.runAt
            ELSE Min(last.pre.alarm, last.req.runAt)

\* C17: when a wake-up completes, the armed time is min(M, min dueAt over the
\* future jobs), M being the nextMaintenanceAt it leaves persisted; with no
\* future job it is M.
C17_ArmedAtNextDue ==
  Completed("alarm") =>
    LET future == futureJobs(last.pre.jobs)
    IN alarm = IF future = <<>> THEN nextPruneAt
               ELSE Min(nextPruneAt, MinRunAt(future))

\* C18: a wake-up at time now with nextMaintenanceAt = M set: if now >= M the
\* persisted history is pruned and nextMaintenanceAt becomes M + 24 h; if
\* now < M, nextMaintenanceAt stays M, due jobs or not.
C18_MaintenanceAdvancesOnePeriod ==
  (Completed("alarm") /\ last.pre.nextPruneAt # 0) =>
    LET M == last.pre.nextPruneAt
    IN IF now >= M
       THEN /\ history = Prune(history, now)
            /\ nextPruneAt = M + DAILY_MS
       ELSE nextPruneAt = M

\* C19: once a chat turn, a schedule request or a wake-up has completed, a
\* wake-up is armed in every state between handlers: each of them leaves one
\* armed, and no handler (a wake-up without jobs and a clear included) leaves
\* the slot empty once it was armed.
C19_TimerStaysArmed ==
  /\ []((last.status = 200 /\ last.op \in {"chat", "schedule", "alarm"})
          => alarm # NoAlarm)
  /\ [][alarm # NoAlarm => alarm' # NoAlarm]_vars

\* a wake-up that found no job at all has re-armed the timer
C19_Witness ==
  /\ Completed("alarm")
  /\ last.pre.jobs = <<>>
  /\ last.pre.alarm <= now
  /\ alarm > now

\* C20: a chat turn or schedule request the limiter denies is answered 429,
\* invokes nothing and changes nothing: history, Job Queue, nextMaintenanceAt
\* and the armed timer are as before, and every bucket keeps its tokens and
\* lastRefill.
C20_DeniedChangesNothing ==
  last.status = 429 =>
    /\ last.op \in {"chat", "schedule"}
    /\ last.calls = <<>>
    /\ history = last.pre.history
    /\ jobs = last.pre.jobs
    /\ nextPruneAt = last.pre.nextPruneAt
    /\ alarm = last.pre.alarm
    /\ \A k \in Keys :
         /\ last.pre.buckets[k] # NoBucket
         /\ buckets[k].tokens = last.pre.buckets[k].tokens
         /\ buckets[k].last = last.pre.buckets[k].last

\* a request was denied some time after the bucket's last refill, with a job
\* pending
C20_Witness ==
  /\ last.status = 429
  /\ last.pre.jobs # <<>>
  /\ \E k \in Keys : last.pre.buckets[k].last < now

\* the tokens the limiter finds in a stored bucket b at time now, after the
\* refill step of policy p (a missing or expired bucket is created full)
TokensFound(b, p) ==
  IF b = NoBucket \/ now >= b.exp THEN p.burst
  ELSE LET add == (now - b.last) \div (MINUTE_MS \div p.rate)
       IN IF add > 0 THEN Min(b.tokens + add, p.burst) ELSE b.tokens

PolicyOf(op) ==
  IF op = "chat" THEN [rate |-> CHAT_RATE, burst |-> CHAT_BURST]
  ELSE [rate |-> SCHED_RATE, burst |-> SCHED_BURST]

SessionStateUnchanged ==
  /\ history = last.pre.history
  /\ jobs = last.pre.jobs
  /\ nextPruneAt = last.pre.nextPruneAt
  /\ alarm = last.pre.alarm

\* C21 (as claimed): a chat turn or schedule request rejected with a
\* validation error leaves history, Job Queue, nextMaintenanceAt, the armed
\* timer and the client's token bucket as they were before the request.
C21_ValidationChangesNothing ==
  last.status \in {400, 413} =>
    /\ SessionStateUnchanged
    /\ \A k \in Keys :
         /\ buckets[k].tokens = last.pre.buckets[k].tokens
         /\ buckets[k].last = last.pre.buckets[k].last

\* C21 (amended): such a request leaves history, Job Queue, nextMaintenanceAt
\* and the armed timer as they were and invokes nothing; the client's bucket
\* has been charged one token, because admission comes before validation.
C21_ValidationChargesOnlyTheBucket ==
  last.status \in {400, 413} =>
    /\ last.op \in {"chat", "schedule"}
    /\ last.calls = <<>>
    /\ SessionStateUnchanged
    /\ \A k \in Keys :
         buckets[k].tokens = TokensFound(last.pre.buckets[k], PolicyOf(last.op)) - 1

\* a schedule request was refused as invalid with a job pending and a history
C21_Witness ==
  /\ last.op = "schedule"
  /\ last.status = 400
  /\ last.pre.jobs # <<>>
  /\ last.pre.history # <<>>

\* C22: an admitted chat turn is refused with a validation error (400 or 413,
\* never 429) exactly when its text is empty or longer than 4000 characters;
\* 4000 characters are accepted; a refused turn invokes nothing and appends
\* nothing.
C22_ChatValidation ==
  (last.op = "chat" /\ last.status # 429) =>
    LET n == last.req.text.len
    IN /\ last.status \in {400, 413} <=> (n = 0 \/ n > MAX_TEXT_CHARS)
       /\ last.status \in {400, 413} =>
            /\ last.calls = <<>>
            /\ history = last.pre.history

\* a chat turn of exactly the maximum length was accepted and stored
C22_Witness ==
  /\ Completed("chat")
  /\ last.req.text.len = MAX_TEXT_CHARS
  /\ Len(history) >= 2

\* C23: an admitted schedule request whose dueAt is not finite or earlier
\* than now, or whose prompt is empty, is refused with a validation error: no
\* invocation, no turn appended, no job enqueued.
C23_InvalidScheduleRejected ==
  (/\ last.op = "schedule"
   /\ last.status # 429
   /\ \/ last.req.runAt = NaN
      \/ last.req.runAt < now
      \/ last.req.text.len = 0)
  => /\ last.status = 400
     /\ last.calls = <<>>
     /\ history = last.pre.history
     /\ jobs = last.pre.jobs

\* C24: the history in the response of a successful chat turn is the
\* persisted history after that turn.
C24_ResponseIsPersistedHistory ==
  Completed("chat") => last.resp = history

SchedAdmitted ==
  {i \in 1..Len(admits) :
     admits[i].rate = SCHED_RATE /\ admits[i].burst = SCHED_BURST /\ admits[i].ok}

\* C26: within any time span shorter than one schedule refill interval at
\* most burst schedule requests of one client are admitted, whatever chat
\* requests that client made before or in between.
C26_SchedulePolicyIndependent ==
  \A i \in SchedAdmitted :
    Cardinality({j \in SchedAdmitted :
                   /\ admits[j].key = admits[i].key
                   /\ admits[j].at >= admits[i].at
                   /\ admits[j].at - admits[i].at < MINUTE_MS \div SCHED_RATE})
      <= SCHED_BURST

\* C30: after a successful chat turn the persisted history is
\* prune(previous history, user turn, assistant turn), the assistant having
\* been invoked once on the previous history plus the user turn; the Job Queue
\* is unchanged.
C30_ChatTurn ==
  Completed("chat") =>
    LET user == Turn("user", last.req.text, now)
        h1 == Append(last.pre.history, user)
    IN /\ Len(last.calls) = 1
       /\ last.calls[1].messages
            = [i \in 1..Len(h1) |-> [role |-> h1[i].role, content |-> h1[i].content]]
       /\ history = Prune(h1 \o <<ReplyTurn(1)>>, now)
       /\ jobs = last.pre.jobs

\* a chat turn on a non-empty history, with a job pending, stored both turns
C30_Witness ==
  /\ Completed("chat")
  /\ last.pre.history # <<>>
  /\ last.pre.jobs # <<>>
  /\ Len(history) > Len(last.pre.history)

\* the jobs found in the queue by the last step of a wake-up that were not
\* there when it started: they were enqueued while it was suspended
EnqueuedMeanwhile ==
  LET f == last.frame
      seen == JobIdsOf(f.due) \cup JobIdsOf(f.future)
  IN {j \in {last.pre.jobs[i] : i \in 1..Len(last.pre.jobs)} : j.id \notin seen}

\* C27: if a schedule request is handled while a wake-up is suspended at an
\* invocation, then once both have completed the new job is still queued (or
\* has been fired) and the armed wake-up is no later than its dueAt.
C27_ScheduleDuringWakeUp ==
  (Completed("alarm") /\ last.frame.op = "alarm") =>
    \A j \in EnqueuedMeanwhile :
      /\ j.id \in JobIdsOf(jobs) \/ fired[j.id] > 0
      /\ alarm # NoAlarm
      /\ alarm <= j.runAt

\* C28: no update of the history is lost when handlers overlap: whenever a
\* handler that pushed turns completes, the persisted history is the history
\* that was stored just before its write, followed by the turns it pushed, up
\* to pruning.
C28_NoLostUpdate ==
  (last.status = 200 /\ last.frame.pushed # <<>>) =>
    history = Prune(last.pre.history \o last.frame.pushed, now)

\* C29: a request on session A (and a wake-up of A's instance) leaves the
\* storage of every other session as it was; every stored turn and job of a
\* session was created by a request on that session, so a history query
\* returns only such turns.
C29_SessionsIsolated ==
  LET r == sessions.last
  IN /\ r.op # "none" =>
          \A b \in Sessions : b # r.session => sessions.store[b] = r.pre[b]
     /\ \A b \in Sessions :
          /\ \A i \in 1..Len(sessions.store[b].history) :
               sessions.store[b].history[i].by = b
          /\ \A i \in 1..Len(sessions.store[b].jobs) : sessions.store[b].jobs[i] = b
     /\ \A i \in 1..Len(r.resp) : r.resp[i].by = r.session

\* a history query on one session returned its turns while the other session
\* held turns and a job of its own
C29_Witness ==
  LET r == sessions.last
  IN /\ r.op = "get"
     /\ r.resp # <<>>
     /\ \E b \in Sessions :
          /\ b # r.session
          /\ sessions.store[b].history # <<>>
          /\ sessions.store[b].jobs # <<>>

NonDecreasing(h) == \A i \in 1..(Len(h) - 1) : h[i].ts <= h[i + 1].ts
Suffix(h, k) == SubSeq(h, Len(h) - k + 1, Len(h))
\* the three limits, for a history read at the instant t
WithinLimits(h, t) ==
  /\ \A i \in 1..Len(h) : h[i].ts >= t - MAX_AGE_MS
  /\ Len(h) <= MAX_MESSAGES
  /\ SumLen(h) <= MAX_HISTORY_CHARS
LongestSuffixWithin(h, t) ==
  LET fit == {k \in 0..Len(h) : WithinLimits(Suffix(h, k), t)}
  IN Suffix(h, CHOOSE k \in fit : \A j \in fit : j <= k)
\* s is h with some turns left out, the others in their order
RECURSIVE IsSubsequence(_, _)
IsSubsequence(s, h) ==
  IF s = <<>> THEN TRUE
  ELSE IF h = <<>> THEN FALSE
  ELSE IF Head(s) = Head(h) THEN IsSubsequence(Tail(s), Tail(h))
  ELSE IsSubsequence(s, Tail(h))

\* C31: for every history with non-decreasing timestamps the three-stage
\* prune stores exactly the longest suffix whose turns are all at most 14 days
\* old, whose length is <= 300 and whose total content length is <= 120,000;
\* for every history, what it stores is the input with some turns left out,
\* in their order, and is not larger than the input in count or in size.
C31_PruneIsLongestSuffix ==
  last.op = "save" =>
    LET h == last.frame.h
    IN /\ NonDecreasing(h) => history = LongestSuffixWithin(h, now)
       /\ IsSubsequence(history, h)
       /\ Len(history) <= Len(h)
       /\ SumLen(history) <= SumLen(h)

\* a history in timestamp order lost turns to two stages at once: its oldest
\* turn was too old and the turns young enough exceeded the count or the size
\* limit, and something was kept
C31_Witness ==
  /\ last.op = "save"
  /\ NonDecreasing(last.frame.h)
  /\ history # <<>>
  /\ Len(pruneByAge(last.frame.h, now)) < Len(last.frame.h)
  /\ Len(history) < Len(pruneByAge(last.frame.h, now))

\* the turn a successful handler pushed last: the marker of a queued schedule
\* request, else the reply of its last invocation
AppendedLast ==
  IF last.op = "schedule" /\ last.mode = "scheduled" THEN MarkerTurn
  ELSE ReplyTurn(Len(last.calls))
Appended ==
  /\ last.status = 200
  /\ \/ last.op \in {"chat", "schedule"}
     \/ last.op = "alarm" /\ last.calls # <<>>

\* C32 (as claimed): after any successful handler that appends a turn the
\* persisted history is non-empty and its last turn is the turn that handler
\* appended last.
C32_NewestTurnKept ==
  Appended => history # <<>> /\ history[Len(history)] = AppendedLast

\* C32 (amended): the same, provided the content of the turn appended last is
\* within the size budget by itself (at most 120,000 characters); a longer
\* turn is discarded by the prune, which then stores an empty history.
C32_NewestTurnKeptIfItFits ==
  Appended =>
    IF AppendedLast.content.len <= MAX_HISTORY_CHARS
    THEN history # <<>> /\ history[Len(history)] = AppendedLast
    ELSE history = <<>>

\* a handler appended to a history that was at the count limit, and its turn
\* is the last of what was stored
C32_Witness ==
  /\ Appended
  /\ Len(last.pre.history) = MAX_MESSAGES
  /\ AppendedLast.content.len <= MAX_HISTORY_CHARS
  /\ history[Len(history)] = AppendedLast

\* C33: the prune is idempotent at a fixed instant: a maintenance run on a
\* history that was persisted at the same instant, whatever array it was
\* persisted from, stores the same history again.
C33_PruneIdempotent ==
  last.op = "maintain" =>
    /\ history = last.pre.history
    /\ history = Prune(last.frame.h, now)

\* a maintenance run followed a save that had dropped turns and kept some
C33_Witness ==
  /\ last.op = "maintain"
  /\ history # <<>>
  /\ Len(history) < Len(last.frame.h)

\* the logged calls on a key, and those that were admitted
CallsOn(key) == {i \in 1..Len(admits) : admits[i].key = key}
AdmittedOn(key) == {i \in CallsOn(key) : admits[i].ok}
OnePolicy(key, p) ==
  \A i \in CallsOn(key) : admits[i].rate = p.rate /\ admits[i].burst = p.burst

WindowBound ==
  \A key \in Keys, p \in Policies :
    OnePolicy(key, p) =>
      \A i, j \in AdmittedOn(key) :
        admits[i].at <= admits[j].at =>
          Cardinality({k \in AdmittedOn(key) :
                         admits[i].at <= admits[k].at /\ admits[k].at <= admits[j].at})
            <= p.burst + (admits[j].at - admits[i].at) \div (MINUTE_MS \div p.rate)

\* a call made when no whole refill interval has elapsed since the bucket's
\* last refill leaves the time of that refill as it is
PartialIntervalKept ==
  \A key \in Keys :
    (/\ Len(admits') = Len(admits) + 1
     /\ admits'[Len(admits')].key = key
     /\ getBucket(key) # NoBucket
     /\ (now - getBucket(key).last) \div (MINUTE_MS \div admits'[Len(admits')].rate) = 0)
    => buckets'[key].last = buckets[key].last

\* C34: for a client key only ever checked under one policy, the admissions
\* granted in any time window of length W are at most
\* burst + floor(W / refillInterval), for every sequence of request times; a
\* check at which no whole interval has elapsed does not lose the partial one.
C34_AdmissionsPerWindow == []WindowBound /\ [][PartialIntervalKept]_vars

\* under one policy a window of positive length was filled to its bound, and
\* a call was denied
C34_Witness ==
  \E key \in Keys, p \in Policies :
    /\ OnePolicy(key, p)
    /\ \E i \in CallsOn(key) : ~admits[i].ok
    /\ \E i, j \in AdmittedOn(key) :
         /\ admits[i].at < admits[j].at
         /\ Cardinality({k \in AdmittedOn(key) :
                           admits[i].at <= admits[k].at /\ admits[k].at <= admits[j].at})
              = p.burst + (admits[j].at - admits[i].at) \div (MINUTE_MS \div p.rate)

\* C35: bucket expiry does not change admission decisions: for every sequence
\* of chat and schedule requests the limiter whose buckets expire 180 s after
\* their last write and the limiter whose buckets never expire give the same
\* admit/deny result for every request.
C35_ExpiryChangesNoDecision ==
  \A i \in 1..Len(admits) : admits[i].ok = admits[i].okKept

\* a call found its bucket expired, right after a call that had been denied,
\* and both limiters admitted it
C35_Witness ==
  \E i \in 2..Len(admits) :
    /\ admits[i].expired
    /\ admits[i].ok
    /\ admits[i].okKept
    /\ ~admits[i - 1].ok

MaxBurst == CHOOSE b \in {p.burst : p \in Policies} : \A p \in Policies : p.burst <= b

TokensInRange ==
  \A key \in Keys :
    buckets[key] # NoBucket =>
      buckets[key].tokens \in 0..MaxBurst

\* one call: without a refill the bucket loses exactly one token when the
\* call is admitted, which it is only from a positive count, and none when
\* it is denied; with a refill, or on a new bucket, the count before the
\* decrement is at most the burst of the policy of the call
TokenStep ==
  \A key \in Keys :
    (Len(admits') = Len(admits) + 1 /\ admits'[Len(admits')].key = key) =>
      LET e == admits'[Len(admits')]
          stored == getBucket(key)
          taken == IF e.ok THEN 1 ELSE 0
          refilled == stored = NoBucket
                      \/ (now - stored.last) \div (MINUTE_MS \div e.rate) > 0
      IN /\ e.ok => buckets'[key].tokens >= 0
         /\ IF refilled
            THEN buckets'[key].tokens + taken <= e.burst
            ELSE /\ e.ok <=> stored.tokens > 0
                 /\ buckets'[key].tokens = stored.tokens - taken

\* C37: in every persisted bucket tokens is an integer with
\* 0 <= tokens <= 45, the largest configured burst; an admission decrements
\* tokens by exactly 1 and only from a positive value, and a refill never
\* raises tokens above the burst of the policy applying it.
C37_TokensInRange == []TokensInRange /\ [][TokenStep]_vars

\* a schedule call was admitted right after a chat call on the same bucket,
\* which then held more tokens than the schedule burst, and a call has been
\* denied
C37_Witness ==
  /\ \E i \in 1..Len(admits) : ~admits[i].ok
  /\ \E i \in 2..Len(admits) :
       /\ admits[i].ok
       /\ admits[i].burst = SCHED_BURST
       /\ admits[i - 1].ok
       /\ admits[i - 1].burst = MaxBurst
       /\ admits[i - 1].at = admits[i].at

\* the stored nextPruneAt (absent = 0) is not lowered by a step, and a stored
\* value is not removed
NextPruneKept ==
  /\ nextPruneAt' >= nextPruneAt
  /\ nextPruneAt # 0 => nextPruneAt' # 0

\* C36: nextMaintenanceAt never decreases: over any sequence of chat turns,
\* schedule requests, clears and wake-ups each value persisted for it is
\* greater than or equal to the previous one, and once set it is never
\* removed (a history clear leaves it in place).
C36_MaintenanceNeverDecreases == [][NextPruneKept]_vars

\* after a history clear that left nextMaintenanceAt in place, a wake-up
\* moved it forward
C36_Witness ==
  /\ quiet
  /\ Completed("alarm")
  /\ last.pre.nextPruneAt # 0
  /\ nextPruneAt > last.pre.nextPruneAt

\* C38: a history clear removes only the history and the Job Queue and leaves
\* the token buckets, nextMaintenanceAt and the armed timer as they were; a
\* history query changes no persisted state and consumes no token.
C38_ClearAndQueryFrame ==
  /\ last.op = "clear" =>
       /\ history = <<>>
       /\ jobs = <<>>
       /\ buckets = last.pre.buckets
       /\ nextPruneAt = last.pre.nextPruneAt
       /\ alarm = last.pre.alarm
  /\ last.op = "get" =>
       [history |-> history, jobs |-> jobs, nextPruneAt |-> nextPruneAt,
        alarm |-> alarm, buckets |-> buckets] = last.pre

\* a clear removed a job for which the timer was armed, and the timer, the
\* bucket and nextMaintenanceAt are still there
C38_Witness ==
  /\ last.op = "clear"
  /\ \E i \in 1..Len(last.pre.jobs) : last.pre.jobs[i].runAt = alarm
  /\ nextPruneAt # 0
  /\ \E key \in Keys : buckets[key] # NoBucket

====
